---- MODULE Spec2Model ----
(***************************************************************************)
(* Model of the product search engine of artisan-bakery:                   *)
(* src/app/api/products/route.ts (normalizeString, levenshteinDistance,    *)
(* fuzzyMatch, findMatches, calculateRelevanceScore, applyFilters, GET).   *)
(*                                                                         *)
(* Strings are sequences of one-code-unit characters.  Numbers with one    *)
(* decimal (rating, proteinContent) are kept in tenths.                    *)
(***************************************************************************)
EXTENDS Integers, Sequences, FiniteSets, TLC

VARIABLES
    levStr1, levStr2, levOut,                \* levenshteinDistance call
    fmText, fmQuery, fmOut,                  \* findMatches call
    scProduct, scQuery, scOut,               \* calculateRelevanceScore call
    catalog, pc, request, params,            \* GET handler
    filteredProducts, response,
    normStr, normOut,                        \* normalizeString call
    indexOut,                                \* GET handler of the product index
    previous,                                \* the last answer of the pipeline
    storedValue, renderedValue,              \* useRecentSearches over
    localStorageItem, lastCall,              \*   useLocalStorage
    dbValue, debouncedValue, timers,         \* useDebounce
    timeoutId, elapsed, changes,
    activeIndex, itemCount, isEnabled,       \* useKeyboardNavigation
    circular, lastKey,
    filters, removal,                        \* useFilters and the filter tags
    functionalValue,                         \* what setState would have stored
    userState, dropdownMounted, sharedItem, removedQueries    \* two users of useRecentSearches

levVars == <<levStr1, levStr2, levOut>>
fmVars == <<fmText, fmQuery, fmOut>>
scVars == <<scProduct, scQuery, scOut>>
getVars == <<catalog, pc, request, params, filteredProducts, response>>
normVars == <<normStr, normOut>>
idxVars == <<indexOut>>
histVars == <<previous>>
rsVars == <<storedValue, renderedValue, localStorageItem, lastCall>>
dbVars == <<dbValue, debouncedValue, timers, timeoutId, elapsed, changes>>
kbVars == <<activeIndex, itemCount, isEnabled, circular, lastKey>>
ftVars == <<filters, removal>>
lsVars == <<functionalValue>>
shVars == <<userState, dropdownMounted, sharedItem, removedQueries>>
lateVars == <<kbVars, ftVars, lsVars, shVars>>
auxVars == <<normVars, idxVars, histVars, rsVars, dbVars, lateVars>>
vars == <<levVars, fmVars, scVars, getVars, auxVars>>

\* ------------------------------------------------------------------------
\* Bounds of the model
\* ------------------------------------------------------------------------
MaxLevLen == 3
MaxTextLen == 3
MaxQueryLen == 2
MaxNameLen == 2
MaxScoreQueryLen == 3
MaxCatalog == 3
MaxNormLen == 3
MaxItemCount == 3         \* items the keyboard navigates over
MaxChanges == 3           \* changes of the input of useDebounce
DebounceDelay == 3        \* the delay of useDebounce, in ticks of the clock

\* ------------------------------------------------------------------------
\* Characters
\* ------------------------------------------------------------------------
Space == " "
CombiningAcute == "u0301"       \* U+0301, in the range U+0300..U+036F
AAcute == "u00E1"               \* U+00E1, a with acute, precomposed
GraphemeJoiner == "u034F"       \* U+034F, in the range U+0300..U+036F
Titlo == "u0483"                \* U+0483, a combining mark outside that range
Etnahta == "u0591"              \* U+0591, a combining mark outside that range

Min2(x, y) == IF x <= y THEN x ELSE y
Min3(x, y, z) == Min2(x, Min2(y, z))
Max2(x, y) == IF x >= y THEN x ELSE y
Abs(x) == IF x < 0 THEN -x ELSE x

\* All sequences over S of length 0..n
SeqsUpTo(S, n) == UNION {[1..k -> S] : k \in 0..n}

\* String.prototype.toLowerCase, one character
toLowerCaseChar(c) ==
    CASE c = "A" -> "a"
      [] c = "B" -> "b"
      [] c = "P" -> "p"
      [] c = "R" -> "r"
      [] c = "O" -> "o"
      [] c = "T" -> "t"
      [] c = "E" -> "e"
      [] c = "I" -> "i"
      [] c = "N" -> "n"
      [] c = "F" -> "f"
      [] OTHER -> c

toLowerCase(s) == [i \in 1..Len(s) |-> toLowerCaseChar(s[i])]

\* Canonical combining class of a character (Unicode character database)
combiningClass(c) ==
    CASE c = CombiningAcute -> 230
      [] c = Titlo -> 230
      [] c = Etnahta -> 220
      [] OTHER -> 0

\* Canonical decomposition of every character
RECURSIVE decompose(_)
decompose(s) ==
    IF s = <<>> THEN <<>>
    ELSE (IF Head(s) = AAcute THEN <<"a", CombiningAcute>> ELSE <<Head(s)>>)
         \o decompose(Tail(s))

\* Canonical ordering: within a run of characters of non-zero combining
\* class, a character of lower class moves before one of higher class
RECURSIVE canonicalOrder(_)
canonicalOrder(s) ==
    LET misplaced == {i \in 1..(Len(s) - 1) :
                         /\ combiningClass(s[i + 1]) > 0
                         /\ combiningClass(s[i]) > combiningClass(s[i + 1])}
    IN  IF misplaced = {} THEN s
        ELSE LET i == CHOOSE x \in misplaced : \A y \in misplaced : x <= y IN
             canonicalOrder([k \in 1..Len(s) |->
                                IF k = i THEN s[i + 1]
                                ELSE IF k = i + 1 THEN s[i]
                                ELSE s[k]])

\* String.prototype.normalize('NFD'): canonical decomposition, then
\* canonical ordering
normalizeNFD(s) == canonicalOrder(decompose(s))

\* .replace(/[\u0300-\u036f]/g, ''): the characters of that range in the model
removeDiacritics(s) ==
    SelectSeq(s, LAMBDA c : c \notin {CombiningAcute, GraphemeJoiner})

isWhitespace(c) == c = Space

RECURSIVE trimStart(_)
trimStart(s) ==
    IF s # <<>> /\ isWhitespace(Head(s)) THEN trimStart(Tail(s)) ELSE s

RECURSIVE trimEnd(_)
trimEnd(s) ==
    IF s # <<>> /\ isWhitespace(s[Len(s)])
    THEN trimEnd(SubSeq(s, 1, Len(s) - 1))
    ELSE s

\* String.prototype.trim
trim(s) == trimEnd(trimStart(s))

normalizeString(str) == trim(removeDiacritics(normalizeNFD(toLowerCase(str))))

\* String.prototype.indexOf(pat, from), 0-based, -1 when absent.
\* An empty pattern is found at min(from, length).
OccursAt(text, pat, i) ==
    /\ i >= 0
    /\ i + Len(pat) <= Len(text)
    /\ \A k \in 1..Len(pat) : text[i + k] = pat[k]

indexOf(text, pat, from) ==
    LET start == Min2(Max2(from, 0), Len(text))
        hits == {i \in start..Len(text) : OccursAt(text, pat, i)}
    IN  IF hits = {} THEN -1
        ELSE CHOOSE i \in hits : \A j \in hits : i <= j

includes(text, pat) == indexOf(text, pat, 0) # -1
startsWith(text, pat) == OccursAt(text, pat, 0)

\* ------------------------------------------------------------------------
\* levenshteinDistance (route.ts 65-96)
\* ------------------------------------------------------------------------
\* Array.from({length: n + 1}, (_, i) => i); JS index j is TLA index j + 1
initialRow(n) == [j \in 1..(n + 1) |-> j - 1]

\* The reduce callback: the row of index i built from previousRow
levRow(str1, str2, previousRow, i) ==
    [jj \in 1..(Len(str2) + 1) |->
        LET j == jj - 1 IN
        IF j = 0 THEN i
        ELSE LET cost == IF str1[i] = str2[j] THEN 0 ELSE 1 IN
             Min3(previousRow[jj] + 1,          \* deletion
                  previousRow[jj - 1] + cost,   \* substitution
                  i + 1)]                       \* insertion

RECURSIVE levReduce(_, _, _, _)
levReduce(str1, str2, previousRow, i) ==
    IF i > Len(str1) THEN previousRow
    ELSE levReduce(str1, str2, levRow(str1, str2, previousRow, i), i + 1)

\* Mutant of levenshteinDistance: the two edge cases return the wrong length
levenshteinDistanceEdgesSwapped(str1, str2) ==
    LET m == Len(str1)
        n == Len(str2)
    IN  IF m = 0 THEN m
        ELSE IF n = 0 THEN n
        ELSE levReduce(str1, str2, initialRow(n), 1)[n + 1]

levenshteinDistance(str1, str2) ==
    LET m == Len(str1)
        n == Len(str2)
    IN  IF m = 0 THEN n
        ELSE IF n = 0 THEN m
        ELSE levReduce(str1, str2, initialRow(n), 1)[n + 1]

\* maxDistance = 2 by default
DefaultMaxDistance == 2

fuzzyMatch(str1, str2, maxDistance) ==
    levenshteinDistance(normalizeString(str1), normalizeString(str2)) <= maxDistance

\* ------------------------------------------------------------------------
\* findMatches (route.ts 125-152)
\* ------------------------------------------------------------------------
\* Call-stack limit of the engine, scaled down: deeper than any recursion that
\* terminates on the strings of this model.  Exceeding it raises RangeError.
StackLimit == 8

Returned(v) == [threw |-> FALSE, value |-> v]
RangeError == [threw |-> TRUE, value |-> <<>>]

RECURSIVE findAllMatches(_, _, _, _, _)
findAllMatches(normalizedText, normalizedQuery, startIndex, accumulator, depth) ==
    IF depth > StackLimit THEN RangeError
    ELSE LET position == indexOf(normalizedText, normalizedQuery, startIndex) IN
         IF position = -1 THEN Returned(accumulator)
         ELSE LET newMatch == <<position, position + Len(normalizedQuery)>> IN
              findAllMatches(normalizedText, normalizedQuery, position + 1,
                             Append(accumulator, newMatch), depth + 1)

\* Mutant of findMatches: the search starts at index 1
findMatchesFromOne(text, query) ==
    findAllMatches(normalizeString(text), normalizeString(query), 1, <<>>, 1)

findMatches(text, query) ==
    findAllMatches(normalizeString(text), normalizeString(query), 0, <<>>, 1)

\* ------------------------------------------------------------------------
\* calculateRelevanceScore (route.ts 175-241)
\* ------------------------------------------------------------------------
isFlourProduct(product) == product.category = "flour"
isOvenProduct(product) == product.category = "oven"

isDigit(c) == c \in {"0", "1", "2", "3", "4", "5", "6", "7", "8", "9"}

digitValue(c) ==
    CASE c = "0" -> 0 [] c = "1" -> 1 [] c = "2" -> 2 [] c = "3" -> 3
      [] c = "4" -> 4 [] c = "5" -> 5 [] c = "6" -> 6 [] c = "7" -> 7
      [] c = "8" -> 8 [] c = "9" -> 9

\* parseInt(digits, 10) of a run of digits
RECURSIVE parseInt(_)
parseInt(digits) ==
    IF digits = <<>> THEN 0
    ELSE 10 * parseInt(SubSeq(digits, 1, Len(digits) - 1))
         + digitValue(digits[Len(digits)])

\* Number of leading digits of s
RECURSIVE digitRun(_)
digitRun(s) ==
    IF s # <<>> /\ isDigit(Head(s)) THEN 1 + digitRun(Tail(s)) ELSE 0

\* Number of leading whitespace characters of s
RECURSIVE whitespaceRun(_)
whitespaceRun(s) ==
    IF s # <<>> /\ isWhitespace(Head(s)) THEN 1 + whitespaceRun(Tail(s)) ELSE 0

dropChars(s, k) == SubSeq(s, k + 1, Len(s))

ProteinWord == <<"p", "r", "o", "t", "e", "i", "n">>

\* /(\d+)%?\s*protein/i matched at 0-based index i of query: the digit group
\* must be the whole run of digits, then an optional %, then all whitespace
proteinMatchAt(query, i) ==
    LET rest == dropChars(query, i)
        d == digitRun(rest)
        afterDigits == dropChars(rest, d)
        afterPercent == IF afterDigits # <<>> /\ Head(afterDigits) = "%"
                        THEN Tail(afterDigits) ELSE afterDigits
        afterSpace == dropChars(afterPercent, whitespaceRun(afterPercent))
    IN  /\ d >= 1
        /\ startsWith(toLowerCase(afterSpace), ProteinWord)

\* query.match(...): the set of start indexes; the leftmost one is the match
proteinMatches(query) == {i \in 0..(Len(query) - 1) : proteinMatchAt(query, i)}

\* proteinMatch[1], the captured digit group of the leftmost match
proteinGroup(query) ==
    LET ms == proteinMatches(query)
        i == CHOOSE x \in ms : \A y \in ms : x <= y
        rest == dropChars(query, i)
    IN  SubSeq(rest, 1, digitRun(rest))

nameScore(product, query) ==
    LET normalizedQuery == normalizeString(query)
        normalizedName == normalizeString(product.name)
    IN  IF normalizedName = normalizedQuery THEN 100
        ELSE IF startsWith(normalizedName, normalizedQuery) THEN 80
        ELSE IF includes(normalizedName, normalizedQuery) THEN 60
        ELSE IF fuzzyMatch(normalizedName, normalizedQuery, DefaultMaxDistance) THEN 10
        ELSE 0

brandScore(product, query) ==
    LET normalizedQuery == normalizeString(query)
        normalizedBrand == normalizeString(product.brand)
    IN  IF normalizedBrand = normalizedQuery THEN 50
        ELSE IF includes(normalizedBrand, normalizedQuery) THEN 30
        ELSE 0

descriptionScore(product, query) ==
    IF includes(normalizeString(product.description), normalizeString(query))
    THEN 20 ELSE 0

\* Mutant of tagScore: matching tags count once, however many match
tagScoreOnce(product, query) ==
    IF \E i \in 1..Len(product.tags) :
           includes(normalizeString(product.tags[i]), normalizeString(query))
    THEN 40 ELSE 0

tagScore(product, query) ==
    40 * Len(SelectSeq(product.tags,
                       LAMBDA tag : includes(normalizeString(tag), normalizeString(query))))

\* proteinContent is in tenths of a percent: diff <= 1 is a difference of 10 tenths
flourScore(product, query) ==
    IF ~isFlourProduct(product) THEN 0
    ELSE IF proteinMatches(query) = {} THEN 0
    ELSE LET queryProtein == parseInt(proteinGroup(query))
             diff == Abs(product.proteinContent - 10 * queryProtein)
         IN  IF diff <= 10 THEN 10 ELSE 0

ovenScore(product, query) ==
    IF ~isOvenProduct(product) THEN 0
    ELSE 15 * Len(SelectSeq(product.features,
                            LAMBDA feature :
                                includes(normalizeString(query), normalizeString(feature))))

\* rating is in tenths of a star: rating >= 4.5
popularityScore(product) == IF product.rating >= 45 THEN 5 ELSE 0

scoreComponents(product, query) ==
    << nameScore(product, query),
       brandScore(product, query),
       descriptionScore(product, query),
       tagScore(product, query),
       flourScore(product, query),
       ovenScore(product, query),
       popularityScore(product) >>

RECURSIVE sum(_)
sum(components) ==
    IF components = <<>> THEN 0 ELSE Head(components) + sum(Tail(components))

calculateRelevanceScore(product, query) ==
    IF trim(query) = <<>> THEN 0
    ELSE sum(scoreComponents(product, query))

\* ------------------------------------------------------------------------
\* applyFilters (route.ts 254-298)
\* ------------------------------------------------------------------------
\* boolean | undefined
Undefined == [defined |-> FALSE, value |-> FALSE]
Defined(b) == [defined |-> TRUE, value |-> b]

SeqToSet(s) == {s[i] : i \in 1..Len(s)}

\* Mutant of passesFilters: in OR mode the category filter is not applied
passesFiltersBranchingOnLogicMode(product, p) ==
    LET categorySet == SeqToSet(p.categories) IN
    /\ ~(p.logicMode # "OR" /\ categorySet # {} /\ product.category \notin categorySet)
    /\ ~(product.price < p.minPrice \/ product.price > p.maxPrice)
    /\ ~(product.rating < p.minRating)
    /\ ~(p.inStock # Undefined /\ product.inStock # p.inStock.value)
    /\ (p.organic # Undefined =>
            IF isFlourProduct(product)
            THEN ~(product.organic # p.organic.value)
            ELSE FALSE)

\* Mutant of passesFilters: the organic filter lets non-flour products through
passesFiltersOrganicPassThrough(product, p) ==
    LET categorySet == SeqToSet(p.categories) IN
    /\ ~(categorySet # {} /\ product.category \notin categorySet)
    /\ ~(product.price < p.minPrice \/ product.price > p.maxPrice)
    /\ ~(product.rating < p.minRating)
    /\ ~(p.inStock # Undefined /\ product.inStock # p.inStock.value)
    /\ (p.organic # Undefined =>
            IF isFlourProduct(product)
            THEN ~(product.organic # p.organic.value)
            ELSE TRUE)

\* The callback of products.filter
passesFilters(product, p) ==
    LET categorySet == SeqToSet(p.categories) IN
    /\ ~(categorySet # {} /\ product.category \notin categorySet)
    /\ ~(product.price < p.minPrice \/ product.price > p.maxPrice)
    /\ ~(product.rating < p.minRating)
    /\ ~(p.inStock # Undefined /\ product.inStock # p.inStock.value)
    /\ (p.organic # Undefined =>
            IF isFlourProduct(product)
            THEN ~(product.organic # p.organic.value)
            ELSE FALSE)

\* Mutant of applyFilters: rejected products are removed from the list while it
\* is walked by index, so the product after a removed one is never tested
RECURSIVE removeWhileWalking(_, _, _)
removeWhileWalking(products, p, i) ==
    IF i > Len(products) THEN products
    ELSE IF passesFilters(products[i], p)
         THEN removeWhileWalking(products, p, i + 1)
         ELSE removeWhileWalking(SubSeq(products, 1, i - 1)
                                   \o SubSeq(products, i + 1, Len(products)),
                                 p, i + 1)

applyFiltersRemovingWhileWalking(products, p) == removeWhileWalking(products, p, 1)

applyFilters(products, p) ==
    SelectSeq(products, LAMBDA product : passesFilters(product, p))

\* ------------------------------------------------------------------------
\* GET (route.ts 346-427)
\* ------------------------------------------------------------------------
Absent == "null"                  \* searchParams.get(...) === null

NoNumber == [kind |-> "absent", value |-> 0]
Num(n) == [kind |-> "number", value |-> n]
Garbage == [kind |-> "NaN", value |-> 0]

\* Number(searchParams.get(name)) || default: null gives 0, text that is no
\* number gives NaN, and both 0 and NaN are falsy
numberOr(raw, default) ==
    IF raw.kind = "number" /\ raw.value # 0 THEN raw.value ELSE default

\* get(name) === 'true' ? true : get(name) === 'false' ? false : undefined
booleanOrUndefined(raw) ==
    IF raw = "true" THEN Defined(TRUE)
    ELSE IF raw = "false" THEN Defined(FALSE)
    ELSE Undefined

\* split(',').map((c) => c.trim()).filter((c) => c.length > 0); the items of
\* the model carry no surrounding whitespace.  raw is the list of items, <<>>
\* when the parameter is absent (the ternary then gives [])
parseCategories(raw) == SelectSeq(raw, LAMBDA c : c # "")

\* searchParams.get('q') || ''
qOrEmpty(raw) == IF raw.present THEN raw.value ELSE <<>>

parseParams(req) ==
    [ q         |-> qOrEmpty(req.q),
      categories |-> parseCategories(req.categories),
      minPrice  |-> numberOr(req.minPrice, 0),
      maxPrice  |-> numberOr(req.maxPrice, 5000),
      minRating |-> numberOr(req.minRating, 0),
      inStock   |-> booleanOrUndefined(req.inStock),
      organic   |-> booleanOrUndefined(req.organic),
      logicMode |-> IF req.logicMode = "OR" THEN "OR" ELSE "AND" ]

\* Array.prototype.sort with a consistent comparator: stable (ECMAScript 2019).
\* compared[i][j] is the comparator applied to seq[i] and seq[j]: seq[i] goes
\* before seq[j] when it is negative, and ties keep their order
sort(seq, compared) ==
    LET n == Len(seq)
        rank(i) == 1 + Cardinality({j \in 1..n : compared[j][i] < 0})
                     + Cardinality({j \in 1..(i - 1) : compared[j][i] = 0})
    IN  [k \in 1..n |-> seq[CHOOSE i \in 1..n : rank(i) = k]]

\* Mutant of compareScore: the operands swapped, an ascending sort
compareScoreAscending(a, b) == a.score - b.score

compareScore(a, b) == b.score - a.score

\* Mutant of compareRating: the operands swapped, an ascending sort
compareRatingAscending(a, b) == a.rating - b.rating

compareRating(a, b) == b.rating - a.rating

\* filteredProducts.map(product => ({product, score, matches}))
searchResults(products, q) ==
    [i \in 1..Len(products) |->
        [ product |-> products[i],
          score   |-> calculateRelevanceScore(products[i], q),
          matches |-> findMatches(products[i].name, q) ]]

\* Mutant of keepScored: >= 0 for > 0
keepScoredNonNegative(results) == SelectSeq(results, LAMBDA result : result.score >= 0)

keepScored(results) == SelectSeq(results, LAMBDA result : result.score > 0)

\* .sort((a, b) => b.score - a.score)
sortByScore(results) ==
    sort(results, [i \in 1..Len(results) |->
                      [j \in 1..Len(results) |-> compareScore(results[i], results[j])]])

\* [...filteredProducts].sort((a, b) => b.rating - a.rating)
sortByRating(products) ==
    sort(products, [i \in 1..Len(products) |->
                       [j \in 1..Len(products) |-> compareRating(products[i], products[j])]])

Ok(products) == [status |-> 200, body |-> products, error |-> "none"]
Failed(message) == [status |-> 500, body |-> <<>>, error |-> message]

\* Lines 388-410 with the catch of 411-426: an exception thrown while the
\* results are mapped is answered with status 500
runQuery(products, p) ==
    IF trim(p.q) # <<>>
    THEN LET results == searchResults(products, p.q) IN
         IF \E i \in 1..Len(results) : results[i].matches.threw
         THEN Failed("RangeError")
         ELSE LET sorted == sortByScore(keepScored(results)) IN
              Ok([i \in 1..Len(sorted) |-> sorted[i].product])
    ELSE Ok(sortByRating(products))

\* ------------------------------------------------------------------------
\* GET of the product index (src/unnamed/part_010)
\* ------------------------------------------------------------------------
\* Mutant of indexPassesFilters: the stock filter is left out
indexPassesFiltersStockIgnored(product, p) ==
    LET categorySet == SeqToSet(p.categories) IN
    /\ ~(categorySet # {} /\ product.category \notin categorySet)
    /\ ~(product.price < p.minPrice \/ product.price > p.maxPrice)
    /\ ~(product.rating < p.minRating)
    /\ (p.organic # Undefined =>
            IF isFlourProduct(product)
            THEN ~(product.organic # p.organic.value)
            ELSE FALSE)

\* The callback of products.filter in the applyFilters of the index route
indexPassesFilters(product, p) ==
    LET categorySet == SeqToSet(p.categories) IN
    /\ ~(categorySet # {} /\ product.category \notin categorySet)
    /\ ~(product.price < p.minPrice \/ product.price > p.maxPrice)
    /\ ~(product.rating < p.minRating)
    /\ ~(p.inStock # Undefined /\ product.inStock # p.inStock.value)
    /\ (p.organic # Undefined =>
            IF isFlourProduct(product)
            THEN ~(product.organic # p.organic.value)
            ELSE FALSE)

\* applyFilters of the index route
indexApplyFilters(products, p) ==
    SelectSeq(products, LAMBDA product : indexPassesFilters(product, p))

createIndex(products) ==
    [i \in 1..Len(products) |->
        [name |-> products[i].name, category |-> products[i].category]]

\* ParsedFilterParams built from the query parameters of the request
indexParseParams(req) ==
    [ categories |-> parseCategories(req.categories),
      minPrice  |-> numberOr(req.minPrice, 0),
      maxPrice  |-> numberOr(req.maxPrice, 5000),
      minRating |-> numberOr(req.minRating, 0),
      inStock   |-> booleanOrUndefined(req.inStock),
      organic   |-> booleanOrUndefined(req.organic) ]

\* ------------------------------------------------------------------------
\* useRecentSearches (src/hooks/useRecentSearches.ts) over useLocalStorage
\* (src/unnamed/part_009 40-113)
\* ------------------------------------------------------------------------
MAX_ITEMS == 5

\* Array.prototype.slice(0, end)
slice(array, end) == SubSeq(array, 1, Min2(end, Len(array)))

\* A RecentSearch.  Its timestamp and resultCount are written and never read
\* by the hook; the entries of the model carry the query only
RecentSearch(query) == [query |-> query]

\* prevSearches.filter(search => search.query.toLowerCase() !== normalizedQuery)
withoutDuplicates(prevSearches, normalizedQuery) ==
    SelectSeq(prevSearches, LAMBDA search : toLowerCase(search.query) # normalizedQuery)

\* Mutant of addSearchUpdate: the new entry is put last
addSearchUpdateAtEnd(prevSearches, query) ==
    slice(Append(withoutDuplicates(prevSearches, toLowerCase(query)),
                 RecentSearch(trim(query))),
          MAX_ITEMS)

\* The function addSearch passes to setSearches
addSearchUpdate(prevSearches, query) ==
    slice(<<RecentSearch(trim(query))>>
              \o withoutDuplicates(prevSearches, toLowerCase(query)),
          MAX_ITEMS)

\* The function removeSearch passes to setSearches
removeSearchUpdate(prevSearches, query) ==
    withoutDuplicates(prevSearches, toLowerCase(query))

\* value(storedValue) for a value that is a function
applyUpdate(update, prev) ==
    IF update.name = "add" THEN addSearchUpdate(prev, update.query)
    ELSE removeSearchUpdate(prev, update.query)

\* localStorage.getItem(key) === null
NoItem == [present |-> FALSE, value |-> <<>>]

\* The item setItem(key, JSON.stringify(valueToStore)) leaves, held as the
\* value its text denotes
Item(valueToStore) == [present |-> TRUE, value |-> valueToStore]

\* ------------------------------------------------------------------------
\* useKeyboardNavigation (src/hooks/useKeyboardNavigation.ts 87-193)
\* ------------------------------------------------------------------------
\* The activeIndex handleKeyDown leaves, from the activeIndex prev
handleKeyDown(key, prev, count, enabled, wraps) ==
    IF ~enabled \/ count = 0 THEN prev
    ELSE CASE key = "ArrowDown" ->
                  IF prev >= count - 1
                  THEN (IF wraps THEN 0 ELSE count - 1)
                  ELSE prev + 1
           [] key = "ArrowUp" ->
                  IF prev <= 0
                  THEN (IF wraps THEN count - 1 ELSE 0)
                  ELSE prev - 1
           [] key = "Home" -> 0
           [] key = "End" -> count - 1
           [] key = "Escape" -> -1
           [] OTHER -> prev

NoKey == [key |-> "none", handled |-> FALSE]

\* ------------------------------------------------------------------------
\* useFilters (src/hooks/useKeyboardNavigation.ts 236-456), the filter types
\* (src/unnamed/part_009 331-471) and the filter tags of SearchInterface
\* ------------------------------------------------------------------------
\* The least and greatest price of the products of ProductPool
PRICE_RANGE == [min |-> 10, max |-> 40]

EMPTY_FILTER_STATE ==
    [ categories |-> {},
      priceRange |-> PRICE_RANGE,
      minRating |-> 0,
      inStock |-> Undefined,
      organic |-> Undefined,
      logicMode |-> "AND" ]

\* filterReducer, for the actions the component dispatches
filterReducer(state, action) ==
    CASE action.type = "TOGGLE_CATEGORY" ->
             [state EXCEPT !.categories =
                 IF action.payload \in state.categories
                 THEN state.categories \ {action.payload}
                 ELSE state.categories \cup {action.payload}]
      [] action.type = "SET_PRICE_RANGE" -> [state EXCEPT !.priceRange = action.payload]
      [] action.type = "SET_MIN_RATING" -> [state EXCEPT !.minRating = action.payload]
      [] action.type = "SET_IN_STOCK" -> [state EXCEPT !.inStock = action.payload]
      [] action.type = "SET_ORGANIC" -> [state EXCEPT !.organic = action.payload]
      [] action.type = "CLEAR_ALL" -> EMPTY_FILTER_STATE
      [] OTHER -> state

\* getActiveFilterCount(state).total
getActiveFilterCount(state) ==
    LET categoryCount == Cardinality(state.categories)
        hasPriceFilter == \/ state.priceRange.min > PRICE_RANGE.min
                          \/ state.priceRange.max < PRICE_RANGE.max
        hasRatingFilter == state.minRating > 0
        hasStockFilter == state.inStock # Undefined
        hasOrganicFilter == state.organic # Undefined
    IN  categoryCount
        + (IF hasPriceFilter THEN 1 ELSE 0)
        + (IF hasRatingFilter THEN 1 ELSE 0)
        + (IF hasStockFilter THEN 1 ELSE 0)
        + (IF hasOrganicFilter THEN 1 ELSE 0)

Tag(type, category) == [type |-> type, category |-> category]
NoTag == Tag("none", "none")

\* A boolean | undefined used as a condition
truthy(optional) == optional.defined /\ optional.value

\* activeFilterTags: the tags shown for a filter state
activeFilterTags(state) ==
    {Tag("category", category) : category \in state.categories}
    \cup (IF \/ state.priceRange.min > PRICE_RANGE.min
              \/ state.priceRange.max < PRICE_RANGE.max
          THEN {Tag("price", "none")} ELSE {})
    \cup (IF state.minRating > 0 THEN {Tag("rating", "none")} ELSE {})
    \cup (IF truthy(state.inStock) THEN {Tag("stock", "none")} ELSE {})
    \cup (IF truthy(state.organic) THEN {Tag("organic", "none")} ELSE {})

\* onRemove of a tag: the filter state after the action it dispatches
onRemove(tag, state) ==
    CASE tag.type = "category" ->
             filterReducer(state, [type |-> "TOGGLE_CATEGORY", payload |-> tag.category])
      [] tag.type = "price" ->
             filterReducer(state, [type |-> "SET_PRICE_RANGE", payload |-> PRICE_RANGE])
      [] tag.type = "rating" ->
             filterReducer(state, [type |-> "SET_MIN_RATING", payload |-> 0])
      [] tag.type = "stock" ->
             filterReducer(state, [type |-> "SET_IN_STOCK", payload |-> Defined(FALSE)])
      [] tag.type = "organic" ->
             filterReducer(state, [type |-> "SET_ORGANIC", payload |-> Defined(FALSE)])

NoRemoval == [tag |-> NoTag, before |-> EMPTY_FILTER_STATE]

\* ------------------------------------------------------------------------
\* Inputs
\* ------------------------------------------------------------------------
\* Keys pressed in the search box
Keys == {"ArrowDown", "ArrowUp", "Home", "End", "Enter", "Escape", "a"}

ProductCategories == {"flour", "banneton", "oven"}

\* Price ranges and ratings the filter panel sets
PriceRanges == {PRICE_RANGE, [min |-> 20, max |-> 40], [min |-> 10, max |-> 30]}
MinRatings == {0, 40}

\* Queries of the functional updates given to setValue, and of the calls of
\* the two users of useRecentSearches
StorageQueries == {<<"a">>, <<"b">>, <<"c">>}
SharedQueries == {<<"a">>, <<"b">>}

\* The functions given to setValue: those of addSearch and of removeSearch
Updates == [name : {"add", "remove"}, query : StorageQueries]

\* The two components that mount useRecentSearches
Users == {"SearchInterface", "RecentSearches"}

\* Values the input of useDebounce takes
DebounceInputs == {"q0", "q1", "q2"}

\* Queries given to addSearch and removeSearch: six that differ whatever the
\* case, one that differs by case only, one with a trailing space, one blank
RecentQueries ==
    { <<"a">>, <<"A">>, <<"a", Space>>, <<Space>>,
      <<"b">>, <<"c">>, <<"d">>, <<"e">>, <<"f">> }

LevAlphabet == {"a", "b"}
LevStrings == SeqsUpTo(LevAlphabet, MaxLevLen)

MatchAlphabet == {"a", "A", Space, CombiningAcute, AAcute}
MatchTexts == SeqsUpTo(MatchAlphabet, MaxTextLen)
MatchQueries == SeqsUpTo(MatchAlphabet, MaxQueryLen)

\* The scenario of the specification: "bread" in "Artisan Bread Flour"
ArtisanBreadFlour ==
    <<"A", "r", "t", "i", "s", "a", "n", Space, "B", "r", "e", "a", "d", Space,
      "F", "l", "o", "u", "r">>
Bread == <<"b", "r", "e", "a", "d">>

NormAlphabet ==
    {"a", "A", Space, CombiningAcute, AAcute, GraphemeJoiner, Titlo, Etnahta}
NormStrings == SeqsUpTo(NormAlphabet, MaxNormLen)

ScoreAlphabet == {"a", "b", "A", Space}
ScoreNames == SeqsUpTo(ScoreAlphabet, MaxNameLen)
ScoreQueries == SeqsUpTo(ScoreAlphabet, MaxScoreQueryLen)

Flour(id, name, price, rating, inStock, organic, proteinContent) ==
    [ id |-> id, category |-> "flour", name |-> name, brand |-> <<"b">>,
      description |-> <<"a", Space, "b">>, tags |-> << <<"a">>, <<"A", "b">> >>,
      price |-> price, rating |-> rating, inStock |-> inStock,
      organic |-> organic, proteinContent |-> proteinContent ]

Banneton(id, name, price, rating, inStock) ==
    [ id |-> id, category |-> "banneton", name |-> name, brand |-> <<"B", "a">>,
      description |-> <<"b">>, tags |-> << <<"b">> >>,
      price |-> price, rating |-> rating, inStock |-> inStock ]

Oven(id, name, price, rating, inStock, features) ==
    [ id |-> id, category |-> "oven", name |-> name, brand |-> <<"a">>,
      description |-> <<>>, tags |-> <<>>,
      price |-> price, rating |-> rating, inStock |-> inStock,
      features |-> features ]

\* Queries that name a protein percentage: one within 1 of 11.5, one not
ProteinQueries ==
    { <<"1", "2", "%", Space, "P", "r", "o", "t", "e", "i", "n">>,
      <<"a", Space, "1", "4", "p", "r", "o", "t", "e", "i", "n">> }

\* Products scored on their own: every name, in each of the three shapes
ScoreProducts ==
    {Flour("f", name, 10, 45, TRUE, TRUE, 115) : name \in ScoreNames}
    \cup {Banneton("b", name, 20, 40, TRUE) : name \in ScoreNames}
    \cup {Oven("o", name, 40, 40, TRUE, << <<"b">>, <<"A">>, <<"a", "a">> >>) :
              name \in ScoreNames}

\* The products catalogs are made of
ProductPool ==
    { Flour("p1", <<"a", "b">>, 10, 45, TRUE, TRUE, 115),
      Flour("p2", <<"A", AAcute>>, 25, 40, FALSE, FALSE, 130),
      Oven("p3", <<"b", "a">>, 40, 40, TRUE, << <<"b">> >>),
      Banneton("p4", <<"b">>, 20, 30, TRUE) }

\* Catalogs: ordered, without repetition, of at most MaxCatalog products
Catalogs ==
    {c \in SeqsUpTo(ProductPool, MaxCatalog) :
        \A i, j \in 1..Len(c) : i # j => c[i] # c[j]}

RawQueries ==
    { [present |-> FALSE, value |-> <<>>],
      [present |-> TRUE, value |-> <<Space>>],
      [present |-> TRUE, value |-> <<"a">>],
      [present |-> TRUE, value |-> <<"B", Space>>],
      [present |-> TRUE, value |-> <<"a", "b">>],
      [present |-> TRUE, value |-> <<Space, CombiningAcute>>],
      [present |-> TRUE, value |-> <<"c", "c", "c">>],
      [present |-> TRUE, value |-> <<"1", "2", "%", Space, "P", "r", "o", "t", "e", "i", "n">>] }

AllRequests ==
    [ q          : RawQueries,
      categories : {<<>>, <<"flour", "", "oven">>},
      minPrice   : {NoNumber, Num(20)},
      maxPrice   : {Garbage, Num(30)},
      minRating  : {NoNumber, Num(45)},
      inStock    : {Absent, "true", "false"},
      organic    : {Absent, "true", "false"},
      logicMode  : {Absent, "OR"} ]

\* Every query with the category, stock and organic filters, and every
\* combination of filters with no query and with the query "a"
Requests ==
    {req \in AllRequests :
        \/ req.q.value \in {<<>>, <<"a">>}
        \/ /\ req.minPrice = NoNumber
           /\ req.maxPrice = Garbage
           /\ req.minRating = NoNumber
           /\ req.logicMode = Absent}

\* Requests sent more than once: three queries, with and without a filter
RepeatRequests ==
    {req \in Requests :
        /\ req.q.value \in {<<>>, <<"a">>,
                            <<"1", "2", "%", Space, "P", "r", "o", "t", "e", "i", "n">>}
        /\ req.q.present = (req.q.value # <<>>)
        /\ req.categories = <<>>
        /\ req.minPrice = NoNumber
        /\ req.maxPrice = Garbage
        /\ req.minRating = NoNumber
        /\ req.inStock \in {Absent, "true"}
        /\ req.organic = Absent
        /\ req.logicMode = Absent}

NoRequest ==
    [ q |-> [present |-> FALSE, value |-> <<>>], categories |-> <<>>,
      minPrice |-> NoNumber, maxPrice |-> NoNumber, minRating |-> NoNumber,
      inStock |-> Absent, organic |-> Absent, logicMode |-> Absent ]

NoResponse == [status |-> 0, body |-> <<>>, error |-> "none"]

NoIndexResponse == [status |-> 0, index |-> <<>>]

\* The parameters sent to both endpoints: every combination of filters,
\* without a query and with the query "a"
IndexRequests ==
    {req \in AllRequests : req.q.value \in {<<>>, <<"a">>} /\ req.logicMode = Absent}

\* ------------------------------------------------------------------------
\* State machines
\* ------------------------------------------------------------------------
NormIdle == normStr = <<>> /\ normOut = [done |-> FALSE, value |-> <<>>]

IdxIdle == indexOut = NoIndexResponse

HistIdle == previous = [request |-> NoRequest, response |-> NoResponse]

RsIdle ==
    /\ storedValue = <<>>
    /\ renderedValue = <<>>
    /\ localStorageItem = NoItem
    /\ lastCall = [name |-> "none", query |-> <<>>]

DbIdle ==
    /\ dbValue = "q0"
    /\ debouncedValue = "q0"
    /\ timers = {}
    /\ timeoutId = 0
    /\ elapsed = 0
    /\ changes = 0

KbIdle ==
    /\ activeIndex = -1
    /\ itemCount = 0
    /\ isEnabled = FALSE
    /\ circular = TRUE
    /\ lastKey = NoKey

FtIdle == filters = EMPTY_FILTER_STATE /\ removal = NoRemoval

LsIdle == functionalValue = <<>>

ShIdle ==
    /\ userState = [user \in Users |-> [storedValue |-> <<>>, renderedValue |-> <<>>]]
    /\ dropdownMounted = FALSE
    /\ sharedItem = NoItem
    /\ removedQueries = {}

LateIdle == KbIdle /\ FtIdle /\ LsIdle /\ ShIdle

AuxIdle == NormIdle /\ IdxIdle /\ HistIdle /\ RsIdle /\ DbIdle /\ LateIdle

LevIdle == levStr1 = <<>> /\ levStr2 = <<>> /\ levOut = [done |-> FALSE, value |-> 0]

FmIdle ==
    /\ fmText = <<>>
    /\ fmQuery = <<>>
    /\ fmOut = [done |-> FALSE, threw |-> FALSE, value |-> <<>>]

ScIdle ==
    /\ scProduct = Banneton("b", <<>>, 20, 40, TRUE)
    /\ scQuery = <<>>
    /\ scOut = [done |-> FALSE, components |-> <<>>, score |-> 0]

GetIdle ==
    /\ catalog = <<>>
    /\ pc = "idle"
    /\ request = NoRequest
    /\ params = parseParams(NoRequest)
    /\ filteredProducts = <<>>
    /\ response = NoResponse

\* --- one call of levenshteinDistance
InitLev ==
    /\ levStr1 \in LevStrings
    /\ levStr2 \in LevStrings
    /\ levOut = [done |-> FALSE, value |-> 0]
    /\ FmIdle /\ ScIdle /\ GetIdle /\ AuxIdle

LevCall ==
    /\ ~levOut.done
    /\ levOut' = [done |-> TRUE, value |-> levenshteinDistance(levStr1, levStr2)]
    /\ UNCHANGED <<levStr1, levStr2, fmVars, scVars, getVars, auxVars>>

NextLev == LevCall
SpecLev == InitLev /\ [][NextLev]_vars

\* --- one call of findMatches
InitMatch ==
    /\ fmText \in MatchTexts \cup {ArtisanBreadFlour}
    /\ fmQuery \in MatchQueries \cup {Bread}
    /\ fmOut = [done |-> FALSE, threw |-> FALSE, value |-> <<>>]
    /\ LevIdle /\ ScIdle /\ GetIdle /\ AuxIdle

FindMatchesCall ==
    /\ ~fmOut.done
    /\ LET r == findMatches(fmText, fmQuery) IN
       fmOut' = [done |-> TRUE, threw |-> r.threw, value |-> r.value]
    /\ UNCHANGED <<fmText, fmQuery, levVars, scVars, getVars, auxVars>>

NextMatch == FindMatchesCall
SpecMatch == InitMatch /\ [][NextMatch]_vars

\* --- one call of calculateRelevanceScore
InitScore ==
    /\ scProduct \in ScoreProducts
    /\ scQuery \in ScoreQueries \cup ProteinQueries
    /\ scOut = [done |-> FALSE, components |-> <<>>, score |-> 0]
    /\ LevIdle /\ FmIdle /\ GetIdle /\ AuxIdle

ScoreCall ==
    /\ ~scOut.done
    /\ scOut' = [ done |-> TRUE,
                  components |-> IF trim(scQuery) = <<>> THEN <<>>
                                 ELSE scoreComponents(scProduct, scQuery),
                  score |-> calculateRelevanceScore(scProduct, scQuery) ]
    /\ UNCHANGED <<scProduct, scQuery, levVars, fmVars, getVars, auxVars>>

NextScore == ScoreCall
SpecScore == InitScore /\ [][NextScore]_vars

\* --- normalizeString on one string
InitNorm ==
    /\ normStr \in NormStrings
    /\ normOut = [done |-> FALSE, value |-> <<>>]
    /\ IdxIdle /\ HistIdle /\ RsIdle /\ DbIdle
    /\ LevIdle /\ FmIdle /\ ScIdle /\ GetIdle /\ LateIdle

NormalizeCall ==
    /\ ~normOut.done
    /\ normOut' = [done |-> TRUE, value |-> normalizeString(normStr)]
    /\ UNCHANGED <<normStr, idxVars, histVars, rsVars, dbVars,
                   levVars, fmVars, scVars, getVars, lateVars>>

NextNorm == NormalizeCall
SpecNorm == InitNorm /\ [][NextNorm]_vars

\* --- the GET handler over a catalog
Init ==
    /\ catalog \in Catalogs
    /\ pc = "idle"
    /\ request = NoRequest
    /\ params = parseParams(NoRequest)
    /\ filteredProducts = <<>>
    /\ response = NoResponse
    /\ LevIdle /\ FmIdle /\ ScIdle /\ AuxIdle

\* A request arrives
Receive(req) ==
    /\ pc = "idle"
    /\ pc' = "received"
    /\ request' = req
    /\ UNCHANGED <<catalog, params, filteredProducts, response, levVars, fmVars, scVars, auxVars>>

\* shouldFail(0.05) is true: the handler throws before it parses anything
GETSimulatedFailure ==
    /\ pc = "received"
    /\ pc' = "responded"
    /\ response' = Failed("Simulated API failure")
    /\ UNCHANGED <<catalog, request, params, filteredProducts, levVars, fmVars, scVars, auxVars>>

\* Mutant of GET: the catalog itself is sorted, not a copy of it
GETSortingInPlace ==
    /\ pc = "received"
    /\ pc' = "responded"
    /\ params' = parseParams(request)
    /\ catalog' = sortByRating(catalog)
    /\ filteredProducts' = applyFilters(catalog', params')
    /\ response' = runQuery(filteredProducts', params')
    /\ UNCHANGED <<request, levVars, fmVars, scVars, auxVars>>

\* The handler from the parsing of the parameters to NextResponse.json
GET ==
    /\ pc = "received"
    /\ pc' = "responded"
    /\ params' = parseParams(request)
    /\ filteredProducts' = applyFilters(catalog, params')
    /\ response' = runQuery(filteredProducts', params')
    /\ UNCHANGED <<catalog, request, levVars, fmVars, scVars, auxVars>>

\* The response is sent; nothing of the request outlives it
Complete ==
    /\ pc = "responded"
    /\ pc' = "idle"
    /\ request' = NoRequest
    /\ params' = parseParams(NoRequest)
    /\ filteredProducts' = <<>>
    /\ response' = NoResponse
    /\ UNCHANGED <<catalog, levVars, fmVars, scVars, auxVars>>

Next ==
    \/ \E req \in Requests : Receive(req)
    \/ GETSimulatedFailure
    \/ GET
    \/ Complete

Spec == Init /\ [][Next]_vars

\* --- useRecentSearches in one component, from an empty history
InitRecent ==
    /\ storedValue = <<>>
    /\ renderedValue = <<>>
    /\ localStorageItem = NoItem
    /\ lastCall = [name |-> "none", query |-> <<>>]
    /\ NormIdle /\ IdxIdle /\ HistIdle /\ DbIdle
    /\ LevIdle /\ FmIdle /\ ScIdle /\ GetIdle /\ LateIdle

\* addSearch(query): setValue applies the update to the storedValue of the
\* render its closure comes from
AddSearch(query) ==
    /\ lastCall' = [name |-> "addSearch", query |-> query]
    /\ IF trim(query) = <<>>
       THEN UNCHANGED <<storedValue, localStorageItem>>
       ELSE LET valueToStore == addSearchUpdate(renderedValue, query) IN
            /\ storedValue' = valueToStore
            /\ localStorageItem' = Item(valueToStore)
    /\ UNCHANGED <<renderedValue, normVars, idxVars, histVars, dbVars,
                   levVars, fmVars, scVars, getVars, lateVars>>

RemoveSearch(query) ==
    /\ lastCall' = [name |-> "removeSearch", query |-> <<>>]
    /\ LET valueToStore == removeSearchUpdate(renderedValue, query) IN
       /\ storedValue' = valueToStore
       /\ localStorageItem' = Item(valueToStore)
    /\ UNCHANGED <<renderedValue, normVars, idxVars, histVars, dbVars,
                   levVars, fmVars, scVars, getVars, lateVars>>

\* clearAll(): clearValue sets the initial value and removes the item
ClearAll ==
    /\ lastCall' = [name |-> "clearAll", query |-> <<>>]
    /\ storedValue' = <<>>
    /\ localStorageItem' = NoItem
    /\ UNCHANGED <<renderedValue, normVars, idxVars, histVars, dbVars,
                   levVars, fmVars, scVars, getVars, lateVars>>

\* The component renders again: the callbacks are made anew over storedValue
Render ==
    /\ renderedValue # storedValue
    /\ renderedValue' = storedValue
    /\ UNCHANGED <<storedValue, localStorageItem, lastCall,
                   normVars, idxVars, histVars, dbVars,
                   levVars, fmVars, scVars, getVars, lateVars>>

NextRecent ==
    \/ \E query \in RecentQueries : AddSearch(query)
    \/ \E query \in RecentQueries : RemoveSearch(query)
    \/ ClearAll
    \/ Render

SpecRecent == InitRecent /\ [][NextRecent]_vars

\* --- useDebounce(value, delay) in a mounted component
\* useState(value), and the effect of the first render
InitDebounce ==
    /\ dbValue \in DebounceInputs
    /\ debouncedValue = dbValue
    /\ timers = {[id |-> 1, value |-> dbValue, remaining |-> DebounceDelay]}
    /\ timeoutId = 1
    /\ elapsed = 0
    /\ changes = 0
    /\ NormIdle /\ IdxIdle /\ HistIdle /\ RsIdle
    /\ LevIdle /\ FmIdle /\ ScIdle /\ GetIdle /\ LateIdle

\* Mutant of Change: the effect has no cleanup, the earlier timeout stays
ChangeWithoutCleanup(v) ==
    /\ changes < MaxChanges
    /\ v # dbValue
    /\ dbValue' = v
    /\ changes' = changes + 1
    /\ elapsed' = 0
    /\ timeoutId' = timeoutId + 1
    /\ timers' = timers \cup {[id |-> timeoutId', value |-> v, remaining |-> DebounceDelay]}
    /\ UNCHANGED <<debouncedValue, normVars, idxVars, histVars, rsVars,
                   levVars, fmVars, scVars, getVars, lateVars>>

\* The component renders with another value: the cleanup of the last effect
\* clears its timeout, and the effect sets a timeout for the new value
Change(v) ==
    /\ changes < MaxChanges
    /\ v # dbValue
    /\ dbValue' = v
    /\ changes' = changes + 1
    /\ elapsed' = 0
    /\ timeoutId' = timeoutId + 1
    /\ timers' = {t \in timers : t.id # timeoutId}
                  \cup {[id |-> timeoutId', value |-> v, remaining |-> DebounceDelay]}
    /\ UNCHANGED <<debouncedValue, normVars, idxVars, histVars, rsVars,
                   levVars, fmVars, scVars, getVars, lateVars>>

\* One tick of the clock
Tick ==
    /\ elapsed < DebounceDelay \/ \E t \in timers : t.remaining > 0
    /\ elapsed' = Min2(elapsed + 1, DebounceDelay)
    /\ timers' = {[t EXCEPT !.remaining = Max2(t.remaining - 1, 0)] : t \in timers}
    /\ UNCHANGED <<dbValue, debouncedValue, timeoutId, changes,
                   normVars, idxVars, histVars, rsVars,
                   levVars, fmVars, scVars, getVars, lateVars>>

\* A timeout that is due runs its callback: setDebouncedValue(value)
Fire ==
    \E t \in timers :
        /\ t.remaining = 0
        /\ debouncedValue' = t.value
        /\ timers' = timers \ {t}
        /\ UNCHANGED <<dbValue, timeoutId, elapsed, changes,
                       normVars, idxVars, histVars, rsVars,
                       levVars, fmVars, scVars, getVars, lateVars>>

NextDebounce ==
    \/ \E v \in DebounceInputs : Change(v)
    \/ Tick
    \/ Fire

\* The clock advances and a due timeout is run by the event loop
SpecDebounce ==
    InitDebounce /\ [][NextDebounce]_vars /\ WF_vars(Tick) /\ WF_vars(Fire)

\* --- useKeyboardNavigation in a mounted component
InitKeyboard ==
    /\ activeIndex = -1
    /\ itemCount \in 0..MaxItemCount
    /\ isEnabled \in BOOLEAN
    /\ circular \in BOOLEAN
    /\ lastKey = NoKey
    /\ FtIdle /\ LsIdle /\ ShIdle
    /\ NormIdle /\ IdxIdle /\ HistIdle /\ RsIdle /\ DbIdle
    /\ LevIdle /\ FmIdle /\ ScIdle /\ GetIdle

\* A key is pressed: handleKeyDown(event)
KeyDown(key) ==
    /\ activeIndex' = handleKeyDown(key, activeIndex, itemCount, isEnabled, circular)
    /\ lastKey' = [key |-> key, handled |-> isEnabled /\ itemCount # 0]
    /\ UNCHANGED <<itemCount, isEnabled, circular, ftVars, lsVars, shVars,
                   normVars, idxVars, histVars, rsVars, dbVars,
                   levVars, fmVars, scVars, getVars>>

\* The component renders with another number of items
ItemCountChange(count) ==
    /\ count # itemCount
    /\ itemCount' = count
    /\ lastKey' = NoKey
    /\ UNCHANGED <<activeIndex, isEnabled, circular, ftVars, lsVars, shVars,
                   normVars, idxVars, histVars, rsVars, dbVars,
                   levVars, fmVars, scVars, getVars>>

\* The component renders with another isEnabled (the list opens or closes)
EnabledChange ==
    /\ isEnabled' = ~isEnabled
    /\ lastKey' = NoKey
    /\ UNCHANGED <<activeIndex, itemCount, circular, ftVars, lsVars, shVars,
                   normVars, idxVars, histVars, rsVars, dbVars,
                   levVars, fmVars, scVars, getVars>>

\* reset(), as the components call it when the list changes or closes
Reset ==
    /\ activeIndex' = -1
    /\ lastKey' = NoKey
    /\ UNCHANGED <<itemCount, isEnabled, circular, ftVars, lsVars, shVars,
                   normVars, idxVars, histVars, rsVars, dbVars,
                   levVars, fmVars, scVars, getVars>>

NextKeyboard ==
    \/ \E key \in Keys : KeyDown(key)
    \/ \E count \in 0..MaxItemCount : ItemCountChange(count)
    \/ EnabledChange
    \/ Reset

SpecKeyboard == InitKeyboard /\ [][NextKeyboard]_vars

\* --- useFilters in SearchInterface, with the filter panel and the tags
InitFilters ==
    /\ filters = EMPTY_FILTER_STATE
    /\ removal = NoRemoval
    /\ KbIdle /\ LsIdle /\ ShIdle
    /\ NormIdle /\ IdxIdle /\ HistIdle /\ RsIdle /\ DbIdle
    /\ LevIdle /\ FmIdle /\ ScIdle /\ GetIdle

\* A category checkbox of the panel is clicked
ToggleCategory(category) ==
    /\ filters' = filterReducer(filters, [type |-> "TOGGLE_CATEGORY", payload |-> category])
    /\ removal' = NoRemoval
    /\ UNCHANGED <<kbVars, lsVars, shVars,
                   normVars, idxVars, histVars, rsVars, dbVars,
                   levVars, fmVars, scVars, getVars>>

SetPriceRange(range) ==
    /\ range # filters.priceRange
    /\ filters' = filterReducer(filters, [type |-> "SET_PRICE_RANGE", payload |-> range])
    /\ removal' = NoRemoval
    /\ UNCHANGED <<kbVars, lsVars, shVars,
                   normVars, idxVars, histVars, rsVars, dbVars,
                   levVars, fmVars, scVars, getVars>>

SetMinRating(rating) ==
    /\ rating # filters.minRating
    /\ filters' = filterReducer(filters, [type |-> "SET_MIN_RATING", payload |-> rating])
    /\ removal' = NoRemoval
    /\ UNCHANGED <<kbVars, lsVars, shVars,
                   normVars, idxVars, histVars, rsVars, dbVars,
                   levVars, fmVars, scVars, getVars>>

\* The stock checkbox of the panel: checked ? true : undefined
SetInStock(checked) ==
    /\ filters' = filterReducer(filters,
                       [type |-> "SET_IN_STOCK",
                        payload |-> IF checked THEN Defined(TRUE) ELSE Undefined])
    /\ filters' # filters
    /\ removal' = NoRemoval
    /\ UNCHANGED <<kbVars, lsVars, shVars,
                   normVars, idxVars, histVars, rsVars, dbVars,
                   levVars, fmVars, scVars, getVars>>

\* The organic checkbox of the panel: checked ? true : undefined
SetOrganic(checked) ==
    /\ filters' = filterReducer(filters,
                       [type |-> "SET_ORGANIC",
                        payload |-> IF checked THEN Defined(TRUE) ELSE Undefined])
    /\ filters' # filters
    /\ removal' = NoRemoval
    /\ UNCHANGED <<kbVars, lsVars, shVars,
                   normVars, idxVars, histVars, rsVars, dbVars,
                   levVars, fmVars, scVars, getVars>>

ClearAllFilters ==
    /\ filters' = filterReducer(filters, [type |-> "CLEAR_ALL"])
    /\ removal' = NoRemoval
    /\ UNCHANGED <<kbVars, lsVars, shVars,
                   normVars, idxVars, histVars, rsVars, dbVars,
                   levVars, fmVars, scVars, getVars>>

\* The remove button of a tag that is shown is clicked
RemoveTag(tag) ==
    /\ tag \in activeFilterTags(filters)
    /\ filters' = onRemove(tag, filters)
    /\ removal' = [tag |-> tag, before |-> filters]
    /\ UNCHANGED <<kbVars, lsVars, shVars,
                   normVars, idxVars, histVars, rsVars, dbVars,
                   levVars, fmVars, scVars, getVars>>

NextFilters ==
    \/ \E category \in ProductCategories : ToggleCategory(category)
    \/ \E range \in PriceRanges : SetPriceRange(range)
    \/ \E rating \in MinRatings : SetMinRating(rating)
    \/ \E checked \in BOOLEAN : SetInStock(checked)
    \/ \E checked \in BOOLEAN : SetOrganic(checked)
    \/ ClearAllFilters
    \/ \E category \in ProductCategories \cup {"none"} :
           \E type \in {"category", "price", "rating", "stock", "organic"} :
               RemoveTag(Tag(type, category))

SpecFilters == InitFilters /\ [][NextFilters]_vars

\* --- useLocalStorage in one component, setValue called with functions
InitStorage ==
    /\ storedValue = <<>>
    /\ renderedValue = <<>>
    /\ localStorageItem = NoItem
    /\ lastCall = [name |-> "none", query |-> <<>>]
    /\ functionalValue = <<>>
    /\ KbIdle /\ FtIdle /\ ShIdle
    /\ NormIdle /\ IdxIdle /\ HistIdle /\ DbIdle
    /\ LevIdle /\ FmIdle /\ ScIdle /\ GetIdle

\* setValue(value) with a function: it is applied to the storedValue of the
\* render the callback was made in.  functionalValue is what React's setState
\* would hold, the function applied to the value of the update before
SetValue(update) ==
    /\ LET valueToStore == applyUpdate(update, renderedValue) IN
       /\ storedValue' = valueToStore
       /\ localStorageItem' = Item(valueToStore)
    /\ functionalValue' = applyUpdate(update, functionalValue)
    /\ lastCall' = [name |-> "setValue", query |-> update.query]
    /\ UNCHANGED <<renderedValue, kbVars, ftVars, shVars,
                   normVars, idxVars, histVars, dbVars,
                   levVars, fmVars, scVars, getVars>>

ClearValue ==
    /\ storedValue' = <<>>
    /\ localStorageItem' = NoItem
    /\ functionalValue' = <<>>
    /\ lastCall' = [name |-> "clearValue", query |-> <<>>]
    /\ UNCHANGED <<renderedValue, kbVars, ftVars, shVars,
                   normVars, idxVars, histVars, dbVars,
                   levVars, fmVars, scVars, getVars>>

\* The component renders again: setValue is made anew over storedValue
RenderStorage ==
    /\ renderedValue # storedValue
    /\ renderedValue' = storedValue
    /\ functionalValue' = storedValue
    /\ lastCall' = [name |-> "none", query |-> <<>>]
    /\ UNCHANGED <<storedValue, localStorageItem, kbVars, ftVars, shVars,
                   normVars, idxVars, histVars, dbVars,
                   levVars, fmVars, scVars, getVars>>

NextStorage ==
    \/ \E update \in Updates : SetValue(update)
    \/ ClearValue
    \/ RenderStorage

SpecStorage == InitStorage /\ [][NextStorage]_vars

\* --- useRecentSearches mounted in two components over one localStorage key
\* SearchInterface is mounted and has read an empty history; the dropdown is
\* not shown yet
InitShared ==
    /\ userState = [user \in Users |-> [storedValue |-> <<>>, renderedValue |-> <<>>]]
    /\ dropdownMounted = FALSE
    /\ sharedItem = NoItem
    /\ removedQueries = {}
    /\ KbIdle /\ FtIdle /\ LsIdle
    /\ NormIdle /\ IdxIdle /\ HistIdle /\ RsIdle /\ DbIdle
    /\ LevIdle /\ FmIdle /\ ScIdle /\ GetIdle

\* The queries of the entries of a list
QueriesOf(searches) == {searches[i].query : i \in 1..Len(searches)}

\* addSearch(query) of one user.  removedQueries holds the queries removed
\* from the persisted history and not added since
AddSearchBy(user, query) ==
    /\ LET valueToStore == addSearchUpdate(userState[user].renderedValue, query) IN
       /\ userState' = [userState EXCEPT ![user].storedValue = valueToStore]
       /\ sharedItem' = Item(valueToStore)
    /\ removedQueries' = removedQueries \ {trim(query)}
    /\ UNCHANGED <<dropdownMounted, kbVars, ftVars, lsVars,
                   normVars, idxVars, histVars, rsVars, dbVars,
                   levVars, fmVars, scVars, getVars>>

\* The remove button of an entry the dropdown shows
RemoveSearchBy(user, query) ==
    /\ dropdownMounted
    /\ query \in QueriesOf(userState[user].renderedValue)
    /\ LET valueToStore == removeSearchUpdate(userState[user].renderedValue, query) IN
       /\ userState' = [userState EXCEPT ![user].storedValue = valueToStore]
       /\ sharedItem' = Item(valueToStore)
    /\ removedQueries' = removedQueries \cup ({query} \cap QueriesOf(sharedItem.value))
    /\ UNCHANGED <<dropdownMounted, kbVars, ftVars, lsVars,
                   normVars, idxVars, histVars, rsVars, dbVars,
                   levVars, fmVars, scVars, getVars>>

\* The clear button of the dropdown, there while it shows an entry
ClearAllBy(user) ==
    /\ dropdownMounted
    /\ userState[user].renderedValue # <<>>
    /\ userState' = [userState EXCEPT ![user].storedValue = <<>>]
    /\ sharedItem' = NoItem
    /\ removedQueries' = removedQueries \cup QueriesOf(sharedItem.value)
    /\ UNCHANGED <<dropdownMounted, kbVars, ftVars, lsVars,
                   normVars, idxVars, histVars, rsVars, dbVars,
                   levVars, fmVars, scVars, getVars>>

\* One user renders again
RenderUser(user) ==
    /\ userState[user].renderedValue # userState[user].storedValue
    /\ userState' = [userState EXCEPT ![user].renderedValue = userState[user].storedValue]
    /\ UNCHANGED <<dropdownMounted, sharedItem, removedQueries, kbVars, ftVars, lsVars,
                   normVars, idxVars, histVars, rsVars, dbVars,
                   levVars, fmVars, scVars, getVars>>

\* SearchInterface shows the dropdown while its own searches are not empty;
\* the dropdown's useLocalStorage reads the item when it mounts
MountDropdown ==
    /\ ~dropdownMounted
    /\ userState["SearchInterface"].renderedValue # <<>>
    /\ dropdownMounted' = TRUE
    /\ userState' = [userState EXCEPT !["RecentSearches"] =
                        [storedValue |-> sharedItem.value, renderedValue |-> sharedItem.value]]
    /\ UNCHANGED <<sharedItem, removedQueries, kbVars, ftVars, lsVars,
                   normVars, idxVars, histVars, rsVars, dbVars,
                   levVars, fmVars, scVars, getVars>>

\* The input loses the focus or gets a query: the dropdown's state is gone
UnmountDropdown ==
    /\ dropdownMounted
    /\ dropdownMounted' = FALSE
    /\ userState' = [userState EXCEPT !["RecentSearches"] =
                        [storedValue |-> <<>>, renderedValue |-> <<>>]]
    /\ UNCHANGED <<sharedItem, removedQueries, kbVars, ftVars, lsVars,
                   normVars, idxVars, histVars, rsVars, dbVars,
                   levVars, fmVars, scVars, getVars>>

NextShared ==
    \/ \E query \in SharedQueries : AddSearchBy("SearchInterface", query)
    \/ \E query \in SharedQueries : RemoveSearchBy("RecentSearches", query)
    \/ ClearAllBy("RecentSearches")
    \/ \E user \in Users : RenderUser(user)
    \/ MountDropdown
    \/ UnmountDropdown

SpecShared == InitShared /\ [][NextShared]_vars

\* --- the same parameters sent to the products route and to the index route
\* The handler of the index route, from the parsing to NextResponse.json
IndexGET ==
    /\ pc # "idle"
    /\ indexOut = NoIndexResponse
    /\ indexOut' = [ status |-> 200,
                     index |-> createIndex(indexApplyFilters(catalog,
                                                             indexParseParams(request))) ]
    /\ UNCHANGED <<getVars, levVars, fmVars, scVars,
                   normVars, histVars, rsVars, dbVars, lateVars>>

\* Both responses are sent
CompleteBoth ==
    /\ pc = "responded"
    /\ indexOut # NoIndexResponse
    /\ pc' = "idle"
    /\ request' = NoRequest
    /\ params' = parseParams(NoRequest)
    /\ filteredProducts' = <<>>
    /\ response' = NoResponse
    /\ indexOut' = NoIndexResponse
    /\ UNCHANGED <<catalog, levVars, fmVars, scVars,
                   normVars, histVars, rsVars, dbVars, lateVars>>

NextIndex ==
    \/ \E req \in IndexRequests : Receive(req)
    \/ GETSimulatedFailure
    \/ GET
    \/ IndexGET
    \/ CompleteBoth

SpecIndex == Init /\ [][NextIndex]_vars

\* --- the GET handler called again and again, the last answer of the
\* pipeline being remembered
CompleteRecorded ==
    /\ pc = "responded"
    /\ pc' = "idle"
    /\ previous' = IF response.error = "Simulated API failure" THEN previous
                   ELSE [request |-> request, response |-> response]
    /\ request' = NoRequest
    /\ params' = parseParams(NoRequest)
    /\ filteredProducts' = <<>>
    /\ response' = NoResponse
    /\ UNCHANGED <<catalog, levVars, fmVars, scVars,
                   normVars, idxVars, rsVars, dbVars, lateVars>>

NextRepeat ==
    \/ \E req \in RepeatRequests : Receive(req)
    \/ GETSimulatedFailure
    \/ GET
    \/ CompleteRecorded

SpecRepeat == Init /\ [][NextRepeat]_vars

\* ------------------------------------------------------------------------
\* Reference notions the properties are stated with
\* ------------------------------------------------------------------------
\* The classic edit distance: the least number of insertions, deletions and
\* substitutions, by recursion on the last characters
RECURSIVE EditDistance(_, _)
EditDistance(a, b) ==
    IF a = <<>> THEN Len(b)
    ELSE IF b = <<>> THEN Len(a)
    ELSE LET a1 == SubSeq(a, 1, Len(a) - 1)
             b1 == SubSeq(b, 1, Len(b) - 1)
             cost == IF a[Len(a)] = b[Len(b)] THEN 0 ELSE 1
         IN  Min3(EditDistance(a1, b) + 1,
                  EditDistance(a, b1) + 1,
                  EditDistance(a1, b1) + cost)

\* s contains t as a contiguous substring
Contains(s, t) == \E i \in 0..Len(s) : OccursAt(s, t, i)

Blank(query) == \A i \in 1..Len(query) : query[i] = Space

\* ------------------------------------------------------------------------
\* Properties
\* ------------------------------------------------------------------------

\* C1: levenshteinDistance(a, b) is the classic edit distance of a and b
\* (insertion, deletion and substitution each cost 1).
C1_LevenshteinIsEditDistance ==
    levOut.done => levOut.value = EditDistance(levStr1, levStr2)

\* The name component the specification describes, with the edit distance
ClaimedNameScore(name, query) ==
    LET nn == normalizeString(name)
        nq == normalizeString(query)
    IN  IF nn = nq THEN 100
        ELSE IF Len(nq) <= Len(nn) /\ SubSeq(nn, 1, Len(nq)) = nq THEN 80
        ELSE IF Contains(nn, nq) THEN 60
        ELSE IF EditDistance(nn, nq) <= 2 THEN 10
        ELSE 0

\* C2: for a non-blank query the name component of calculateRelevanceScore is
\* 100 for an equal normalized name, else 80 for a prefix, else 60 for a
\* substring, else 10 for an edit distance of at most 2, else 0.
C2_NameComponent ==
    (scOut.done /\ ~Blank(scQuery)) =>
        scOut.components[1] = ClaimedNameScore(scProduct.name, scQuery)

\* C3: whatever the catalog, the filters and the query, the query pipeline
\* ends with a product list and raises no error.
C3_PipelineNeverThrows ==
    (pc = "responded" /\ response.error # "Simulated API failure") =>
        response.status = 200

\* C4: findMatches returns the empty list when the query is blank and when
\* the normalized text does not contain the normalized query.
C4_EmptyWhenBlankOrAbsent ==
    (fmOut.done /\ (Blank(fmQuery)
                    \/ ~Contains(normalizeString(fmText), normalizeString(fmQuery)))) =>
        (~fmOut.threw /\ fmOut.value = <<>>)

\* C5: consecutive spans returned by findMatches do not overlap: the end of
\* one is at most the start of the next.
C5_SpansDoNotOverlap ==
    (fmOut.done /\ ~fmOut.threw) =>
        \A k \in 1..(Len(fmOut.value) - 1) :
            fmOut.value[k][2] <= fmOut.value[k + 1][1]

\* The handler answered from the pipeline (not with the simulated failure)
Answered == pc = "responded" /\ response.status = 200

Searched == Answered /\ trim(params.q) # <<>>

Sorted == Answered /\ trim(params.q) = <<>>

\* Position of a product in a list without repetition
Pos(products, product) == CHOOSE i \in 1..Len(products) : products[i] = product

Score(product) == calculateRelevanceScore(product, params.q)

\* C6: for a query that is not blank the returned list is non-increasing in
\* score, and products of equal score keep the order of the filtered catalog.
C6_SortedByScoreStable ==
    Searched =>
        \A i, j \in 1..Len(response.body) :
            i < j =>
                /\ Score(response.body[i]) >= Score(response.body[j])
                /\ Score(response.body[i]) = Score(response.body[j]) =>
                       Pos(filteredProducts, response.body[i])
                           < Pos(filteredProducts, response.body[j])

\* A search whose three results had to be reordered and hold a tie
C6_Witness ==
    /\ Searched
    /\ Len(response.body) = 3
    /\ response.body # filteredProducts
    /\ \E i \in 1..2 : Score(response.body[i]) = Score(response.body[i + 1])
    /\ \E i \in 1..2 : Score(response.body[i]) > Score(response.body[i + 1])

\* The filter as section 4.5 states it
ClaimedPass(product, p) ==
    /\ (p.categories = <<>> \/ \E i \in 1..Len(p.categories) : p.categories[i] = product.category)
    /\ p.minPrice <= product.price
    /\ product.price <= p.maxPrice
    /\ product.rating >= p.minRating
    /\ (~p.inStock.defined \/ product.inStock = p.inStock.value)
    /\ (~p.organic.defined
        \/ (product.category = "flour" /\ product.organic = p.organic.value))

InCatalog(product) == \E i \in 1..Len(catalog) : catalog[i] = product

\* C7: for a query that is not blank the returned list holds exactly the
\* products that pass the filter and score more than 0, each once.
C7_ExactlyPositiveScores ==
    Searched =>
        /\ \A i \in 1..Len(catalog) :
               (ClaimedPass(catalog[i], params) /\ Score(catalog[i]) > 0)
                   <=> (\E k \in 1..Len(response.body) : response.body[k] = catalog[i])
        /\ \A k \in 1..Len(response.body) : InCatalog(response.body[k])
        /\ \A k, l \in 1..Len(response.body) :
               k # l => response.body[k] # response.body[l]

\* A search that returns a product, drops one that scores 0 and leaves out one
\* that scores but fails the filter
C7_Witness ==
    /\ Searched
    /\ response.body # <<>>
    /\ \E i \in 1..Len(catalog) :
           ClaimedPass(catalog[i], params) /\ Score(catalog[i]) = 0
    /\ \E i \in 1..Len(catalog) :
           ~ClaimedPass(catalog[i], params) /\ Score(catalog[i]) > 0

\* C8: for a blank query the returned list is the filtered catalog reordered
\* by non-increasing rating, equal ratings in the order of the filtered catalog.
C8_BlankQueryRatingOrder ==
    Sorted =>
        /\ Len(response.body) = Len(filteredProducts)
        /\ \A k \in 1..Len(filteredProducts) :
               \E i \in 1..Len(response.body) : response.body[i] = filteredProducts[k]
        /\ \A i, j \in 1..Len(response.body) :
               i < j =>
                   /\ response.body[i].rating >= response.body[j].rating
                   /\ response.body[i].rating = response.body[j].rating =>
                          Pos(filteredProducts, response.body[i])
                              < Pos(filteredProducts, response.body[j])

\* A whitespace-only query over three filtered products that had to be
\* reordered and hold a tie in rating
C8_Witness ==
    /\ Sorted
    /\ request.q.present
    /\ request.q.value # <<>>
    /\ Len(response.body) = 3
    /\ response.body # filteredProducts
    /\ \E i \in 1..2 : response.body[i].rating = response.body[i + 1].rating

\* The GET action has run (with either outcome of the pipeline)
Handled == pc = "responded" /\ response.error # "Simulated API failure"

\* C9: applyFilters keeps, in catalog order, exactly the products that meet
\* every filter; when organic is set no product other than flour is kept.
C9_ApplyFilters ==
    Handled =>
        /\ filteredProducts =
               SelectSeq(catalog, LAMBDA product : ClaimedPass(product, params))
        /\ params.organic.defined =>
               \A k \in 1..Len(filteredProducts) :
                   filteredProducts[k].category = "flour"

\* The organic filter is set to false and excludes a product that is no flour
\* and meets every other filter, while a flour product is kept
C9_Witness ==
    /\ Handled
    /\ params.organic = Defined(FALSE)
    /\ filteredProducts # <<>>
    /\ \E i \in 1..Len(catalog) :
           /\ catalog[i].category # "flour"
           /\ ClaimedPass(catalog[i], [params EXCEPT !.organic = Undefined])

\* C10: filtering the filtered list again with the same parameters changes
\* nothing.
C10_FilterIdempotent ==
    Handled => applyFilters(filteredProducts, params) = filteredProducts

\* A filter that kept some products and rejected two that follow each other
C10_Witness ==
    /\ Handled
    /\ filteredProducts # <<>>
    /\ \E i \in 1..(Len(catalog) - 1) :
           /\ ~passesFilters(catalog[i], params)
           /\ ~passesFilters(catalog[i + 1], params)

\* C11: levenshteinDistance is symmetric in its two arguments.
C11_LevenshteinSymmetric ==
    levOut.done => levOut.value = levenshteinDistance(levStr2, levStr1)

\* C12: levenshteinDistance(a, a) = 0, and the distance between the empty
\* string and a, either way round, is the length of a.
C12_LevenshteinBoundaries ==
    levOut.done =>
        /\ levStr1 = levStr2 => levOut.value = 0
        /\ levStr1 = <<>> => levOut.value = Len(levStr2)
        /\ levStr2 = <<>> => levOut.value = Len(levStr1)

\* The distance from the empty string to a string of the greatest length of
\* the model has been computed
C12_Witness ==
    /\ levOut.done
    /\ levStr1 = <<>>
    /\ Len(levStr2) = MaxLevLen
    /\ levOut.value = MaxLevLen

\* The components of the score other than the name component and the flour
\* protein bonus, as the specification describes them
ClaimedFixedComponents(product, query) ==
    LET nq == normalizeString(query)
        nb == normalizeString(product.brand)
        brand == IF nb = nq THEN 50 ELSE IF Contains(nb, nq) THEN 30 ELSE 0
        description == IF Contains(normalizeString(product.description), nq)
                       THEN 20 ELSE 0
        tags == 40 * Cardinality({i \in 1..Len(product.tags) :
                                     Contains(normalizeString(product.tags[i]), nq)})
        features == IF product.category = "oven"
                    THEN 15 * Cardinality({i \in 1..Len(product.features) :
                             Contains(nq, normalizeString(product.features[i]))})
                    ELSE 0
        popularity == IF product.rating >= 45 THEN 5 ELSE 0
    IN  brand + description + tags + features + popularity

\* C13: calculateRelevanceScore is 0 for a blank query; otherwise it is the
\* sum, without a cap, of the name component, the brand component (50 equal,
\* 30 contained, 0), 20 for the description, 40 for each matching tag, the
\* flour protein bonus (10 or 0, flour only), 15 for each oven feature found in
\* the query (oven only) and 5 for a rating of 4.5 or more; it is an integer
\* that is never negative.
C13_ScoreIsSumOfComponents ==
    scOut.done =>
        IF Blank(scQuery) THEN scOut.score = 0
        ELSE LET proteinBonus ==
                     scOut.score - scOut.components[1]
                                 - ClaimedFixedComponents(scProduct, scQuery)
             IN  /\ proteinBonus \in {0, 10}
                 /\ scProduct.category # "flour" => proteinBonus = 0
                 /\ scOut.score \in Nat

\* A flour with two matching tags has a score over 100: nothing caps the sum
C13_Witness ==
    /\ scOut.done
    /\ ~Blank(scQuery)
    /\ scProduct.category = "flour"
    /\ Cardinality({i \in 1..Len(scProduct.tags) :
           Contains(normalizeString(scProduct.tags[i]), normalizeString(scQuery))}) = 2
    /\ scOut.score > 100

\* C14: for a query whose normalized form is not empty, findMatches returns,
\* in strictly increasing order of start, one span (i, i + length of the
\* normalized query) for every index i at which the normalized query occurs in
\* the normalized text, and no other span; "bread" in "Artisan Bread Flour"
\* gives exactly one span.
C14_OneSpanPerOccurrence ==
    LET nt == normalizeString(fmText)
        nq == normalizeString(fmQuery)
        spans == fmOut.value
    IN  (fmOut.done /\ nq # <<>>) =>
            /\ ~fmOut.threw
            /\ \A k \in 1..Len(spans) :
                   /\ OccursAt(nt, nq, spans[k][1])
                   /\ spans[k] = <<spans[k][1], spans[k][1] + Len(nq)>>
            /\ \A k \in 1..(Len(spans) - 1) : spans[k][1] < spans[k + 1][1]
            /\ \A i \in 0..Len(nt) :
                   OccursAt(nt, nq, i) => \E k \in 1..Len(spans) : spans[k][1] = i
            /\ (fmText = ArtisanBreadFlour /\ fmQuery = Bread) =>
                   spans = << <<8, 13>> >>

\* The scenario has been computed: one span, over "Bread"
C14_Witness ==
    /\ fmOut.done
    /\ fmText = ArtisanBreadFlour
    /\ fmQuery = Bread
    /\ fmOut.value = << <<8, 13>> >>

\* C16: normalizeString is idempotent: normalizing a normalized string
\* changes nothing.
C16_NormalizeIdempotent ==
    normOut.done => normalizeString(normOut.value) = normOut.value

C17_IndexMatchesFilterStage ==
    (Handled /\ indexOut # NoIndexResponse) =>
        /\ indexOut.status = 200
        /\ indexOut.index =
               [i \in 1..Len(filteredProducts) |->
                   [ name |-> filteredProducts[i].name,
                     category |-> filteredProducts[i].category ]]

\* Both routes have answered a request whose filters keep two products of
\* three
C17_Witness ==
    /\ Handled
    /\ indexOut # NoIndexResponse
    /\ Len(catalog) = 3
    /\ Len(filteredProducts) = 2
    /\ Len(indexOut.index) = 2
    /\ params.inStock # Undefined

\* C18: from an empty history, after any sequence of addSearch, removeSearch
\* and clearAll the list holds at most 5 entries, and right after addSearch(q)
\* with a q that is not blank the trimmed q is the first entry.
C18_AtMostFiveNewestFirst ==
    /\ Len(storedValue) <= 5
    /\ Len(renderedValue) <= 5
    /\ Len(localStorageItem.value) <= 5
    /\ (lastCall.name = "addSearch" /\ ~Blank(lastCall.query)) =>
           /\ storedValue # <<>>
           /\ storedValue[1].query = trim(lastCall.query)

\* A query with a space to trim has been added to a list of 5 that did not
\* hold it: it is first, and the list still has 5 entries
C18_Witness ==
    /\ lastCall.name = "addSearch"
    /\ lastCall.query # trim(lastCall.query)
    /\ Len(renderedValue) = 5
    /\ \A i \in 1..5 : renderedValue[i].query # trim(lastCall.query)
    /\ Len(storedValue) = 5
    /\ storedValue[1].query = trim(lastCall.query)

\* C19: no two entries of the recent searches are equal ignoring case.
C19_NoDuplicates ==
    \A i, j \in 1..Len(storedValue) :
        i # j => toLowerCase(storedValue[i].query) # toLowerCase(storedValue[j].query)

\* C20: the result of useDebounce changes only to the current input, and only
\* when the input has not changed for the delay (so a value superseded within
\* the delay is never returned); once the input stops changing the result
\* eventually equals the latest input, and stays so.
C20_DebounceSettles ==
    /\ [][debouncedValue' # debouncedValue =>
              (debouncedValue' = dbValue /\ elapsed >= DebounceDelay)]_vars
    /\ <>[](debouncedValue = dbValue)

\* After several changes of the input the result has become the latest input
C20_Witness ==
    /\ changes >= 2
    /\ timers = {}
    /\ debouncedValue = dbValue
    /\ elapsed >= DebounceDelay

\* The request with the other logic mode
WithOtherLogicMode(req) ==
    [req EXCEPT !.logicMode = IF req.logicMode = "OR" THEN "AND" ELSE "OR"]

MatchesQuery(product, query) ==
    LET components == scoreComponents(product, query) IN
    \E k \in 1..6 : components[k] > 0

\* C25: for a query that is not blank, every returned product matches the
\* query in its name, brand, description, a tag or a category-specific bonus.
C25_ReturnedProductsMatch ==
    Searched =>
        \A i \in 1..Len(response.body) : MatchesQuery(response.body[i], params.q)

\* C23: when navigation is enabled and there are items, handling ArrowDown,
\* ArrowUp, Home or End leaves activeIndex within 0..itemCount-1, whatever
\* keys and changes of itemCount came before.
C23_ActiveIndexInRange ==
    (lastKey.handled /\ lastKey.key \in {"ArrowDown", "ArrowUp", "Home", "End"}) =>
        activeIndex \in 0..(itemCount - 1)

\* The filter of a tag has in state the value it has in the empty filter
\* state (for a category: it is not selected)
Deactivated(tag, state) ==
    CASE tag.type = "category" -> tag.category \notin state.categories
      [] tag.type = "price" -> state.priceRange = EMPTY_FILTER_STATE.priceRange
      [] tag.type = "rating" -> state.minRating = EMPTY_FILTER_STATE.minRating
      [] tag.type = "stock" -> state.inStock = EMPTY_FILTER_STATE.inStock
      [] tag.type = "organic" -> state.organic = EMPTY_FILTER_STATE.organic

\* Every filter other than the one of the tag is the same in both states
OthersUnchanged(tag, before, after) ==
    /\ after.categories \ {tag.category} = before.categories \ {tag.category}
    /\ tag.type # "price" => after.priceRange = before.priceRange
    /\ tag.type # "rating" => after.minRating = before.minRating
    /\ tag.type # "stock" => after.inStock = before.inStock
    /\ tag.type # "organic" => after.organic = before.organic
    /\ after.logicMode = before.logicMode

\* C21: removing an active filter tag deactivates exactly that filter: its
\* field has the value of the empty filter state, the count of active
\* filters is one lower, and every other filter is unchanged.
C21_TagRemovalDeactivates ==
    removal.tag # NoTag =>
        /\ Deactivated(removal.tag, filters)
        /\ getActiveFilterCount(filters) = getActiveFilterCount(removal.before) - 1
        /\ OthersUnchanged(removal.tag, removal.before, filters)

\* C24: setValue called with functions behaves like setState: after
\* setValue(f) and setValue(g) with no render in between, the state and the
\* localStorage item hold g(f(v)).
C24_FunctionalUpdates ==
    /\ storedValue = functionalValue
    /\ localStorageItem.value = functionalValue

\* C26: with two users of useRecentSearches over one key, an entry removed by
\* removeSearch or clearAll is not in the persisted history again unless its
\* query has been added again since.
C26_RemovedStaysRemoved ==
    QueriesOf(sharedItem.value) \cap removedQueries = {}

====
